---- MODULE Spec2Model ----
(***************************************************************************)
(* Session/Task coordination engine of the CFTeam ecosystem.               *)
(*                                                                         *)
(* The services (src/src/services) are written against the schema that     *)
(* src/scripts/run_migrations_direct.py creates: tasks carry identifier,   *)
(* assigned_agent_id, retry_count and error_message, TaskStatus has        *)
(* ASSIGNED and AgentStatus has IDLE and WORKING.  The store is modelled   *)
(* with that schema.  A row's integer id and its identifier are both       *)
(* unique per row and are represented by the same number: the position of  *)
(* the row in its table.                                                   *)
(*                                                                         *)
(* A store statement together with the commit that follows it is one       *)
(* atomic step (the row is locked from the UPDATE to the commit).          *)
(***************************************************************************)
EXTENDS Integers, Sequences, FiniteSets, TLC

\* ------------------------------------------------------------------ bounds
MaxTasks == 2
MaxSessions == 2
NAgents == 2
MaxDeps == 1
MaxFailed == 1
MaxRetry == 1
\* length of the dependency chain A <- B <- C
ChainLen == 3
\* concurrent callers of assign_task, and the tasks they race for
NCallers == 2
RaceTasks == 1
\* RedisLock instances on one key, their timeout and extend()'s additional_time
\* in clock ticks, and the number of acquire() calls
NInst == 2
LockTimeout == 2
AddTime == 1
MaxTokens == 4
\* tasks created where session and task life cycles run side by side
LifeTasks == 1

\* assigned_agent_id IS NULL
NoAgent == 0
AgentIds == 1..NAgents
\* an agent identifier no row has
UnknownAgent == NAgents + 1
TaskIds == 1..MaxTasks
ChainIds == 1..ChainLen
Callers == 1..NCallers
Insts == 1..NInst
\* the key is absent / self.identifier is None
NoToken == 0
SessionIds == 1..MaxSessions
\* the cache keys of a session: "session:<identifier>" is entry s,
\* "session_progress:<identifier>" is entry ProgressKey(s)
ProgressKey(s) == MaxSessions + s
SessionCacheKeys == 1..(2 * MaxSessions)

VARIABLES
    tasks,          \* the tasks table: a sequence of rows, row i has id i
    agents,         \* the agents table
    sessions,       \* the sessions table
    task_queue,     \* TaskCoordinator._task_queue
    cache,          \* RedisCache entries "task:<identifier>", entry i for task i
    session_cache,  \* RedisCache entries "session:..." and "session_progress:..."
    last,           \* the last call that returned: operation, return value
    scen,           \* position in the two-task scenario of test_system.py
    pc,             \* where each concurrent caller stands in assign_task
    call,           \* each concurrent caller's arguments and return value
    lock_token,     \* the value stored under the lock key, NoToken if absent
    lock_ttl,       \* the ticks the lock key has left to live
    next_token,     \* the next value uuid.uuid4() returns
    inst            \* the RedisLock instances: identifier, position, last call

storeVars == <<tasks, agents, sessions, task_queue, cache, session_cache, last, scen>>
raceVars == <<pc, call>>
lockVars == <<lock_token, lock_ttl, next_token, inst>>
vars == <<storeVars, raceVars, lockVars>>

\* ------------------------------------------------------------ pure helpers
InSeq(x, s) == \E i \in 1..Len(s) : s[i] = x

RECURSIVE RemoveFirst(_, _)
\* list.remove(x): drops the first occurrence of x
RemoveFirst(s, x) ==
    IF s = <<>> THEN <<>>
    ELSE IF Head(s) = x THEN Tail(s)
    ELSE <<Head(s)>> \o RemoveFirst(Tail(s), x)

\* all sequences over S of length at most n
SeqsUpTo(S, n) == UNION {[1..k -> S] : k \in 0..n}

NoEntry == [present |-> FALSE, status |-> "none", agent |-> NoAgent]
NullRate == [null |-> TRUE, num |-> 0, den |-> 1]
NoProgress == [session_id |-> 0, total |-> 0, completed |-> 0, failed |-> 0, in_progress |-> 0,
               pct_num |-> 0, pct_den |-> 1]

\* ------------------------------------------------------------------- rows
\* TaskPriority, lowest first: the order of the enum type in the store
Priorities == <<"low", "medium", "high", "urgent">>

\* Task(...) as create_task builds it; status takes the column default, priority
\* the default of the parameter
NewTask(session_id, deps, assigned_agent_id) ==
    [session |-> session_id,
     status |-> "pending",
     agent |-> assigned_agent_id,
     deps |-> deps,
     started |-> FALSE,
     retry_count |-> 0,
     err |-> FALSE,
     priority |-> "medium"]

NewAgent ==
    [status |-> "idle", tasks_completed |-> 0, tasks_failed |-> 0,
     success_rate |-> NullRate]

\* Session(...) as create_session builds it; status takes the column default.
\* meta_data is represented by the set of its keys.
NewSession == [status |-> "planning", meta_data |-> {}]

\* the value create_task puts in the cache
TaskCacheEntry(row) == [present |-> TRUE, status |-> row.status, agent |-> row.agent]

\* (tasks_completed / total_tasks) * 100, kept as an exact fraction
SuccessRate(completed, failed) ==
    [null |-> FALSE, num |-> completed * 100, den |-> completed + failed]

\* RedisLock.__init__: identifier None.  op, ret and n record the last call that
\* returned on the instance (n flips at every return); expired tells whether the
\* key has expired since the instance last acquired it.
NewLock == [identifier |-> NoToken, pc |-> "idle", op |-> "none", ret |-> FALSE,
            n |-> 0, expired |-> FALSE]

NoCall == [t |-> 0, a |-> 0, ret |-> "none", fresh |-> FALSE]

Init ==
    /\ tasks = <<>>
    /\ agents = [a \in AgentIds |-> NewAgent]
    /\ sessions = <<>>
    /\ task_queue = <<>>
    /\ cache = <<>>
    /\ session_cache = [k \in SessionCacheKeys |-> "none"]
    /\ last = [op |-> "none", ret |-> "none", val |-> NoProgress]
    /\ scen = [step |-> 0, S |-> 0, A |-> 0, B |-> 0]
    /\ pc = [c \in Callers |-> "idle"]
    /\ call = [c \in Callers |-> NoCall]
    /\ lock_token = NoToken
    /\ lock_ttl = 0
    /\ next_token = 1
    /\ inst = [i \in Insts |-> NewLock]

Returned(op, ret) == [op |-> op, ret |-> ret, val |-> NoProgress]
TaskExists(t) == t \in 1..Len(tasks)
SessionExists(s) == s \in 1..Len(sessions)

\* ------------------------------------------------- scenario of test_system.py
\* create Session S; create Task A (no deps) and Task B (deps = [A]) under S;
\* assign, start, complete A; assign, start, complete B.  The monitor advances
\* on the next call of the scenario and falls back to 0 on any other write call.
NoScen == [step |-> 0, S |-> 0, A |-> 0, B |-> 0]

ScenAfter(op, x, y, z) ==
    IF op = "create_session"
    THEN [step |-> 1, S |-> Len(sessions) + 1, A |-> 0, B |-> 0]
    ELSE IF op = "create_task" /\ scen.step = 1 /\ x = scen.S /\ y = <<>> /\ z = NoAgent
    THEN [scen EXCEPT !.step = 2, !.A = Len(tasks) + 1]
    ELSE IF op = "create_task" /\ scen.step = 2 /\ x = scen.S /\ y = <<scen.A>> /\ z = NoAgent
    THEN [scen EXCEPT !.step = 3, !.B = Len(tasks) + 1]
    ELSE IF op = "assign_task" /\ scen.step = 3 /\ x = scen.A /\ y \in AgentIds
    THEN [scen EXCEPT !.step = 4]
    ELSE IF op = "start_task" /\ scen.step = 4 /\ x = scen.A
    THEN [scen EXCEPT !.step = 5]
    ELSE IF op = "complete_task" /\ scen.step = 5 /\ x = scen.A
    THEN [scen EXCEPT !.step = 6]
    ELSE IF op = "assign_task" /\ scen.step = 6 /\ x = scen.B /\ y \in AgentIds
    THEN [scen EXCEPT !.step = 7]
    ELSE IF op = "start_task" /\ scen.step = 7 /\ x = scen.B
    THEN [scen EXCEPT !.step = 8]
    ELSE IF op = "complete_task" /\ scen.step = 8 /\ x = scen.B
    THEN [scen EXCEPT !.step = 9]
    ELSE NoScen

\* ------------------------------------------------------------ SessionManager
\* create_session: the row is committed and cached, then CHANNELS['session_updates']
\* raises KeyError (CHANNELS has no such key) and the handler re-raises.
CreateSession ==
    /\ sessions' = Append(sessions, NewSession)
    /\ session_cache' = [session_cache EXCEPT ![Len(sessions) + 1] = NewSession.status]
    /\ last' = Returned("create_session", "raise")
    /\ scen' = ScenAfter("create_session", 0, 0, 0)
    /\ UNCHANGED <<tasks, agents, task_queue, cache>>

\* sess.tasks without the restriction to the session: every row of the table
AllTasks(s) == tasks

\* sess.tasks: the rows of the tasks table whose session_id is s, in id order
SessionTasks(s) == SelectSeq(tasks, LAMBDA row : row.session = s)

\* len([t for t in sess.tasks if t.status == st])
CountStatus(rows, st) == Len(SelectSeq(rows, LAMBDA row : row.status = st))

\* (completed_tasks / total_tasks * 100) if total_tasks > 0 else 0, as a fraction
CompletionPercentage(completed, total) ==
    IF total > 0 THEN <<completed * 100, total>> ELSE <<0, 1>>

\* the dictionary get_session_progress builds
Progress(s) ==
    LET rows == SessionTasks(s)
        total == Len(rows)
        completed == CountStatus(rows, "completed")
        pct == CompletionPercentage(completed, total)
    IN  [session_id |-> s,
         total |-> total,
         completed |-> completed,
         failed |-> CountStatus(rows, "failed"),
         in_progress |-> CountStatus(rows, "in_progress"),
         pct_num |-> pct[1],
         pct_den |-> pct[2]]

\* get_session_progress.  The dict is also stored under
\* session_progress:<identifier>; of that copy the state keeps the status.
GetSessionProgress(s) ==
    /\ last' = IF SessionExists(s)
               THEN [op |-> "get_session_progress", ret |-> "dict", val |-> Progress(s)]
               ELSE Returned("get_session_progress", "empty")
    /\ session_cache' = IF SessionExists(s)
                        THEN [session_cache EXCEPT ![ProgressKey(s)] = sessions[s].status]
                        ELSE session_cache
    /\ UNCHANGED <<tasks, agents, sessions, task_queue, cache, scen>>

\* the keys of CHANNELS
CHANNELS == {"agent_communication", "task_updates", "crew_coordination",
             "system_events", "error_reports"}

\* What a handler returns once its UPDATE is committed and its cache entry is
\* deleted: CHANNELS[channel] is evaluated for the publish call, a missing key
\* raises KeyError, and the handler's except clause logs it and returns False.
AfterPublish(channel) == IF channel \in CHANNELS THEN "true" ELSE "false"

\* get_session: the cache is consulted for a log line only, the row returned
\* is the one the store holds
GetSession(s) ==
    /\ last' = IF SessionExists(s)
               THEN [op |-> "get_session", ret |-> "record",
                     val |-> [id |-> s, row |-> sessions[s]]]
               ELSE Returned("get_session", "none")
    /\ UNCHANGED <<tasks, agents, sessions, task_queue, cache, session_cache, scen>>

\* a session transition: UPDATE ... WHERE <where> VALUES status = <to>; commit;
\* cache.delete; publish on <channel>; return True.  rowcount 0: return False
SessionTransition(op, s, where, to, channel) ==
    /\ IF SessionExists(s) /\ where
       THEN /\ sessions' = [sessions EXCEPT ![s].status = to]
            /\ session_cache' = [session_cache EXCEPT ![s] = "none"]
            /\ last' = Returned(op, AfterPublish(channel))
       ELSE /\ last' = Returned(op, "false")
            /\ UNCHANGED <<sessions, session_cache>>
    /\ scen' = NoScen
    /\ UNCHANGED <<tasks, agents, task_queue, cache>>

\* WHERE clauses of the session UPDATEs
StartSessionWhere(row) == row.status = "planning"
PauseSessionWhere(row) == row.status = "active"
CompleteSessionWhere(row) == row.status \in {"active", "paused"}
FailSessionWhere(row) == row.status # "completed"
ArchiveSessionWhere(row) == row.status \in {"completed", "failed"}

StartSession(s) ==
    SessionTransition("start_session", s,
                      SessionExists(s) /\ StartSessionWhere(sessions[s]),
                      "active", "session_updates")

\* pause_session.  With a reason, get_session loads the row in a database
\* session of its own; pause_reason is set on that detached copy and the commit
\* that follows is the handler's own session's: meta_data is not written.
PauseSession(s) ==
    SessionTransition("pause_session", s,
                      SessionExists(s) /\ PauseSessionWhere(sessions[s]),
                      "paused", "session_updates")

\* complete_session.  The incomplete tasks are counted for a warning only;
\* completion_summary is set on the detached copy get_session returned.
CompleteSession(s) ==
    SessionTransition("complete_session", s,
                      SessionExists(s) /\ CompleteSessionWhere(sessions[s]),
                      "completed", "session_updates")

\* fail_session.  failure_reason and failed_at are set on the detached copy
\* get_session returned: meta_data is not written.
FailSession(s) ==
    SessionTransition("fail_session", s,
                      SessionExists(s) /\ FailSessionWhere(sessions[s]),
                      "failed", "session_updates")

\* archive_session publishes nothing: no channel is looked up
ArchiveSession(s) ==
    /\ IF SessionExists(s) /\ ArchiveSessionWhere(sessions[s])
       THEN /\ sessions' = [sessions EXCEPT ![s].status = "archived"]
            /\ session_cache' = [session_cache EXCEPT ![s] = "none",
                                                      ![ProgressKey(s)] = "none"]
            /\ last' = Returned("archive_session", "true")
       ELSE /\ last' = Returned("archive_session", "false")
            /\ UNCHANGED <<sessions, session_cache>>
    /\ scen' = NoScen
    /\ UNCHANGED <<tasks, agents, task_queue, cache>>

\* ------------------------------- session transitions, statement by statement
SessionOps == {"start_session", "pause_session", "complete_session",
               "fail_session", "archive_session"}

\* the WHERE clause and the status written by each transition
SessionWhere(op, row) ==
    CASE op = "start_session" -> StartSessionWhere(row)
      [] op = "pause_session" -> PauseSessionWhere(row)
      [] op = "complete_session" -> CompleteSessionWhere(row)
      [] op = "fail_session" -> FailSessionWhere(row)
      [] op = "archive_session" -> ArchiveSessionWhere(row)
SessionTo(op) ==
    CASE op = "start_session" -> "active"
      [] op = "pause_session" -> "paused"
      [] op = "complete_session" -> "completed"
      [] op = "fail_session" -> "failed"
      [] op = "archive_session" -> "archived"

\* The call is made.  complete_session reads the session first and returns
\* False if there is none; the others go straight to their UPDATE.  fresh
\* records whether the session was in a source state of op when the call began.
SessionBegin(c, op, s) ==
    /\ pc[c] = "idle"
    /\ LET src == SessionExists(s) /\ SessionWhere(op, sessions[s])
       IN  IF op = "complete_session" /\ ~SessionExists(s)
           THEN /\ pc' = [pc EXCEPT ![c] = "done"]
                /\ call' = [call EXCEPT ![c] =
                       [op |-> op, t |-> s, a |-> NoAgent, ret |-> "false", fresh |-> src,
                        rowcount |-> 0]]
           ELSE /\ pc' = [pc EXCEPT ![c] = "s_update"]
                /\ call' = [call EXCEPT ![c] =
                       [op |-> op, t |-> s, a |-> NoAgent, ret |-> "none", fresh |-> src,
                        rowcount |-> 0]]
    /\ UNCHANGED storeVars
    /\ UNCHANGED lockVars

\* update(Session) ... ; rowcount > 0: commit.  rowcount 0: return False
SessionUpdate(c) ==
    /\ pc[c] = "s_update"
    /\ LET s == call[c].t
           op == call[c].op
       IN  IF SessionExists(s) /\ SessionWhere(op, sessions[s])
           THEN /\ sessions' = [sessions EXCEPT ![s].status = SessionTo(op)]
                /\ pc' = [pc EXCEPT ![c] = "s_cache"]
                /\ call' = [call EXCEPT ![c].rowcount = 1]
           ELSE /\ pc' = [pc EXCEPT ![c] = "done"]
                /\ call' = [call EXCEPT ![c].ret = "false"]
                /\ UNCHANGED sessions
    /\ UNCHANGED <<tasks, agents, task_queue, cache, session_cache, last, scen>>
    /\ UNCHANGED lockVars

\* cache.delete(f"session:{identifier}")
SessionCacheDelete(c) ==
    /\ pc[c] = "s_cache"
    /\ session_cache' = IF call[c].op = "archive_session"
                        THEN [session_cache EXCEPT ![call[c].t] = "none",
                                                   ![ProgressKey(call[c].t)] = "none"]
                        ELSE [session_cache EXCEPT ![call[c].t] = "none"]
    /\ pc' = [pc EXCEPT ![c] = "s_publish"]
    /\ UNCHANGED <<tasks, agents, sessions, task_queue, cache, last, scen, call>>
    /\ UNCHANGED lockVars

\* publish on CHANNELS['session_updates'] and return True; archive_session
\* returns True without publishing
SessionPublish(c) ==
    /\ pc[c] = "s_publish"
    /\ pc' = [pc EXCEPT ![c] = "done"]
    /\ call' = [call EXCEPT ![c].ret =
           IF call[c].op = "archive_session" THEN "true"
           ELSE AfterPublish("session_updates")]
    /\ UNCHANGED storeVars
    /\ UNCHANGED lockVars

\* ------------------------------------------------------------ TaskCoordinator
\* get_task: the cache is consulted for a log line only, the row returned is
\* the one the store holds
GetTask(t) ==
    /\ last' = IF TaskExists(t)
               THEN [op |-> "get_task", ret |-> "record",
                     val |-> [id |-> t, row |-> tasks[t]]]
               ELSE Returned("get_task", "none")
    /\ UNCHANGED <<tasks, agents, sessions, task_queue, cache, session_cache, scen>>

\* the dependency lists a caller can pass: identifiers of tasks that exist
DepLists == SeqsUpTo(1..Len(tasks), MaxDeps)

\* create_task.  A session_id or assigned_agent_id without a row violates the
\* foreign key at commit: the handler logs and re-raises, nothing is stored.
CreateTaskWith(session_id, priority, deps, assigned_agent_id) ==
    /\ IF SessionExists(session_id) /\ assigned_agent_id \in AgentIds \cup {NoAgent}
       THEN LET id == Len(tasks) + 1
                row == [NewTask(session_id, deps, assigned_agent_id)
                            EXCEPT !.priority = priority]
            IN  /\ tasks' = Append(tasks, row)
                /\ cache' = Append(cache, TaskCacheEntry(row))
                /\ task_queue' = IF assigned_agent_id = NoAgent
                                 THEN Append(task_queue, id)
                                 ELSE task_queue
                /\ last' = Returned("create_task", "task")
       ELSE /\ last' = Returned("create_task", "raise")
            /\ UNCHANGED <<tasks, cache, task_queue>>
    /\ scen' = IF SessionExists(session_id) /\ assigned_agent_id \in AgentIds \cup {NoAgent}
               THEN ScenAfter("create_task", session_id, deps, assigned_agent_id)
               ELSE NoScen
    /\ UNCHANGED <<agents, sessions, session_cache>>

\* create_task called without a priority
CreateTask(session_id, deps, assigned_agent_id) ==
    CreateTaskWith(session_id, "medium", deps, assigned_agent_id)

\* assign_task's UPDATE without its WHERE clause on the status: a blind write
AssignWhereAny(row) == TRUE

\* WHERE clause of assign_task's UPDATE
AssignWhere(row) == row.status = "pending"
\* assign_task's UPDATE writing the agent and not the status
AssignKeepsStatus(row, a) == [row EXCEPT !.agent = a]
\* VALUES of assign_task's UPDATE
AssignValues(row, a) == [row EXCEPT !.agent = a, !.status = "assigned"]

\* assign_task, run to completion
AssignTask(t, a) ==
    /\ IF a \in AgentIds /\ TaskExists(t) /\ AssignWhere(tasks[t])
       THEN /\ tasks' = [tasks EXCEPT ![t] = AssignValues(tasks[t], a)]
            /\ agents' = [agents EXCEPT ![a].status = "working"]
            /\ cache' = [cache EXCEPT ![t] = NoEntry]
            /\ task_queue' = RemoveFirst(task_queue, t)
            /\ last' = Returned("assign_task", "true")
       ELSE /\ last' = Returned("assign_task", "false")
            /\ UNCHANGED <<tasks, agents, cache, task_queue>>
    /\ scen' = ScenAfter("assign_task", t, a, 0)
    /\ UNCHANGED <<sessions, session_cache>>

\* start_task's UPDATE without its WHERE clause on the status: a blind write
StartWhereAny(row) == TRUE

\* WHERE clause of start_task's UPDATE
StartWhere(row) == row.status \in {"assigned", "pending"}

StartTask(t) ==
    /\ IF TaskExists(t) /\ StartWhere(tasks[t])
       THEN /\ tasks' = [tasks EXCEPT ![t].status = "in_progress", ![t].started = TRUE]
            /\ cache' = [cache EXCEPT ![t] = NoEntry]
            /\ last' = Returned("start_task", "true")
       ELSE /\ last' = Returned("start_task", "false")
            /\ UNCHANGED <<tasks, cache>>
    /\ scen' = ScenAfter("start_task", t, 0, 0)
    /\ UNCHANGED <<agents, task_queue, sessions, session_cache>>

\* agent.tasks_completed += 1; agent.status = IDLE; success rate
AgentCompleted(ag) ==
    [ag EXCEPT !.tasks_completed = ag.tasks_completed + 1,
               !.status = "idle",
               !.success_rate = SuccessRate(ag.tasks_completed + 1, ag.tasks_failed)]

\* agent.tasks_failed += 1; agent.status = IDLE; success rate
AgentFailed(ag) ==
    [ag EXCEPT !.tasks_failed = ag.tasks_failed + 1,
               !.status = "idle",
               !.success_rate = SuccessRate(ag.tasks_completed, ag.tasks_failed + 1)]

\* _check_and_unblock_dependencies: the rows it selects
ResolverSelects(row, c) == row.status = "blocked" /\ InSeq(c, row.deps)

\* ... and of those, the ones whose list is empty once c is removed from it
ResolverUnblocks(row, c) == ResolverSelects(row, c) /\ RemoveFirst(row.deps, c) = <<>>

\* A resolver whose list.remove() reaches the store: the commit writes the
\* shortened list of every row it selected
ResolverTasksPersist(ts, c) ==
    [i \in DOMAIN ts |->
        IF ResolverUnblocks(ts[i], c)
        THEN [ts[i] EXCEPT !.status = "pending", !.deps = <<>>]
        ELSE IF ResolverSelects(ts[i], c)
        THEN [ts[i] EXCEPT !.deps = RemoveFirst(ts[i].deps, c)]
        ELSE ts[i]]

\* The tasks table after _check_and_unblock_dependencies(c).  dependencies is a
\* plain JSON column: list.remove() changes the loaded list in place, which the
\* unit of work does not see, so the commit writes the status and nothing else.
ResolverTasks(ts, c) ==
    [i \in DOMAIN ts |->
        IF ResolverUnblocks(ts[i], c) THEN [ts[i] EXCEPT !.status = "pending"] ELSE ts[i]]

RECURSIVE ResolverQueue(_, _, _, _)
\* _task_queue after _check_and_unblock_dependencies(c): the unassigned tasks it
\* unblocks are appended in the order of the scan (rows i, i+1, ...)
ResolverQueue(ts, q, c, i) ==
    IF i > Len(ts) THEN q
    ELSE ResolverQueue(ts,
                       IF ResolverUnblocks(ts[i], c) /\ ts[i].agent = NoAgent
                       THEN Append(q, i) ELSE q,
                       c, i + 1)

\* WHERE clause of complete_task's UPDATE
CompleteWhere(row) == row.status = "in_progress"

CompleteTask(t) ==
    /\ IF TaskExists(t) /\ CompleteWhere(tasks[t])
       THEN LET done == [tasks EXCEPT ![t].status = "completed"]
                a == tasks[t].agent
            IN  /\ tasks' = ResolverTasks(done, t)
                /\ task_queue' = ResolverQueue(done, task_queue, t, 1)
                /\ agents' = IF a # NoAgent
                             THEN [agents EXCEPT ![a] = AgentCompleted(agents[a])]
                             ELSE agents
                /\ cache' = [cache EXCEPT ![t] = NoEntry]
                /\ last' = Returned("complete_task", "true")
       ELSE /\ last' = Returned("complete_task", "false")
            /\ UNCHANGED <<tasks, agents, cache, task_queue>>
    /\ scen' = ScenAfter("complete_task", t, 0, 0)
    /\ UNCHANGED <<sessions, session_cache>>

\* WHERE clause of fail_task's UPDATE
FailWhere(row) == row.status # "completed"

FailTask(t) ==
    /\ TaskExists(t) /\ tasks[t].agent # NoAgent
            => agents[tasks[t].agent].tasks_failed < MaxFailed
    /\ IF TaskExists(t) /\ FailWhere(tasks[t])
       THEN LET a == tasks[t].agent
            IN  /\ tasks' = [tasks EXCEPT ![t].status = "failed", ![t].err = TRUE]
                /\ agents' = IF a # NoAgent
                             THEN [agents EXCEPT ![a] = AgentFailed(agents[a])]
                             ELSE agents
                /\ cache' = [cache EXCEPT ![t] = NoEntry]
                /\ last' = Returned("fail_task", "true")
       ELSE /\ last' = Returned("fail_task", "false")
            /\ UNCHANGED <<tasks, agents, cache>>
    /\ scen' = NoScen
    /\ UNCHANGED <<task_queue, sessions, session_cache>>

\* retry_task: the status is tested on the row get_task read; the UPDATE has
\* no WHERE clause on it
RetryTask(t) ==
    /\ TaskExists(t) => tasks[t].retry_count < MaxRetry
    /\ IF TaskExists(t) /\ tasks[t].status = "failed"
       THEN /\ tasks' = [tasks EXCEPT ![t].status = "pending",
                                      ![t].retry_count = tasks[t].retry_count + 1,
                                      ![t].err = FALSE]
            /\ task_queue' = IF tasks[t].agent = NoAgent
                             THEN Append(task_queue, t)
                             ELSE task_queue
            /\ cache' = [cache EXCEPT ![t] = NoEntry]
            /\ last' = Returned("retry_task", "true")
       ELSE /\ last' = Returned("retry_task", "false")
            /\ UNCHANGED <<tasks, cache, task_queue>>
    /\ scen' = NoScen
    /\ UNCHANGED <<agents, sessions, session_cache>>

\* --------------------------------------------- assign_task, statement by statement
\* A caller is suspended at every await; the steps of several callers interleave.
\* select(Agent).where(Agent.identifier == agent_identifier)
AssignBegin(c, t, a) ==
    /\ pc[c] = "idle"
    /\ IF a \in AgentIds
       THEN /\ pc' = [pc EXCEPT ![c] = "update"]
            /\ call' = [call EXCEPT ![c] =
                   [t |-> t, a |-> a, ret |-> "none",
                    fresh |-> TaskExists(t) /\ tasks[t].status = "pending"
                              /\ tasks[t].agent = NoAgent]]
       ELSE /\ pc' = [pc EXCEPT ![c] = "done"]
            /\ call' = [call EXCEPT ![c] =
                   [t |-> t, a |-> a, ret |-> "false", fresh |-> FALSE]]
    /\ UNCHANGED storeVars
    /\ UNCHANGED lockVars

\* update(Task) ... ; rowcount > 0: commit.  rowcount 0: return False
AssignUpdate(c) ==
    /\ pc[c] = "update"
    /\ LET t == call[c].t
       IN  IF TaskExists(t) /\ AssignWhere(tasks[t])
           THEN /\ tasks' = [tasks EXCEPT ![t] = AssignValues(tasks[t], call[c].a)]
                /\ pc' = [pc EXCEPT ![c] = "agent"]
                /\ UNCHANGED call
           ELSE /\ pc' = [pc EXCEPT ![c] = "done"]
                /\ call' = [call EXCEPT ![c].ret = "false"]
                /\ UNCHANGED tasks
    /\ UNCHANGED <<agents, sessions, task_queue, cache, session_cache, last, scen>>
    /\ UNCHANGED lockVars

\* update(Agent) ... status = WORKING; commit
AssignAgent(c) ==
    /\ pc[c] = "agent"
    /\ agents' = [agents EXCEPT ![call[c].a].status = "working"]
    /\ pc' = [pc EXCEPT ![c] = "cache"]
    /\ UNCHANGED <<tasks, sessions, task_queue, cache, session_cache, last, scen, call>>
    /\ UNCHANGED lockVars

\* cache.delete(f"task:{task_identifier}")
AssignCache(c) ==
    /\ pc[c] = "cache"
    /\ cache' = [cache EXCEPT ![call[c].t] = NoEntry]
    /\ pc' = [pc EXCEPT ![c] = "dequeue"]
    /\ UNCHANGED <<tasks, agents, sessions, task_queue, session_cache, last, scen, call>>
    /\ UNCHANGED lockVars

\* get_task; if task.id in self._task_queue: remove it
AssignDequeue(c) ==
    /\ pc[c] = "dequeue"
    /\ task_queue' = RemoveFirst(task_queue, call[c].t)
    /\ pc' = [pc EXCEPT ![c] = "publish"]
    /\ UNCHANGED <<tasks, agents, sessions, cache, session_cache, last, scen, call>>
    /\ UNCHANGED lockVars

\* publish 'assigned'; return True
AssignPublish(c) ==
    /\ pc[c] = "publish"
    /\ pc' = [pc EXCEPT ![c] = "done"]
    /\ call' = [call EXCEPT ![c].ret = "true"]
    /\ UNCHANGED storeVars
    /\ UNCHANGED lockVars

\* ------------------------- complete_task and retry_task, statement by statement
\* what a caller keeps between its steps: the call, the Task get_task returned
\* (assigned_agent_id, retry_count), the Agent row it selected, the return value
MidCall(op, t, row) ==
    [op |-> op, t |-> t, a |-> row.agent, retry_count |-> row.retry_count,
     ag |-> NewAgent, ret |-> "none", fresh |-> FALSE]
EndCall(op, t, ret) ==
    [op |-> op, t |-> t, a |-> NoAgent, retry_count |-> 0,
     ag |-> NewAgent, ret |-> ret, fresh |-> FALSE]

\* task = await self.get_task(identifier); if not task: return False
CompleteBegin(c, t) ==
    /\ pc[c] = "idle"
    /\ IF TaskExists(t)
       THEN /\ pc' = [pc EXCEPT ![c] = "c_update"]
            /\ call' = [call EXCEPT ![c] = MidCall("complete_task", t, tasks[t])]
       ELSE /\ pc' = [pc EXCEPT ![c] = "done"]
            /\ call' = [call EXCEPT ![c] = EndCall("complete_task", t, "false")]
    /\ UNCHANGED storeVars
    /\ UNCHANGED lockVars

\* update(Task) ... where status == IN_PROGRESS; rowcount > 0: commit
CompleteUpdate(c) ==
    /\ pc[c] = "c_update"
    /\ LET t == call[c].t
       IN  IF CompleteWhere(tasks[t])
           THEN /\ tasks' = [tasks EXCEPT ![t].status = "completed"]
                /\ pc' = [pc EXCEPT ![c] =
                       IF call[c].a # NoAgent THEN "c_agent" ELSE "c_cache"]
                /\ UNCHANGED call
           ELSE /\ pc' = [pc EXCEPT ![c] = "done"]
                /\ call' = [call EXCEPT ![c].ret = "false"]
                /\ UNCHANGED tasks
    /\ UNCHANGED <<agents, sessions, task_queue, cache, session_cache, last, scen>>
    /\ UNCHANGED lockVars

\* select(Agent).where(Agent.id == task.assigned_agent_id)
CompleteAgentSelect(c) ==
    /\ pc[c] = "c_agent"
    /\ call' = [call EXCEPT ![c].ag = agents[call[c].a]]
    /\ pc' = [pc EXCEPT ![c] = "c_metrics"]
    /\ UNCHANGED storeVars
    /\ UNCHANGED lockVars

\* The UPDATE the commit flushes for the loaded Agent: it carries the attributes
\* whose new value differs from the loaded one, computed from the loaded row.
FlushAgent(cur, loaded, new) ==
    [status |-> IF new.status # loaded.status THEN new.status ELSE cur.status,
     tasks_completed |-> IF new.tasks_completed # loaded.tasks_completed
                         THEN new.tasks_completed ELSE cur.tasks_completed,
     tasks_failed |-> IF new.tasks_failed # loaded.tasks_failed
                      THEN new.tasks_failed ELSE cur.tasks_failed,
     success_rate |-> IF new.success_rate # loaded.success_rate
                      THEN new.success_rate ELSE cur.success_rate]

\* agent.tasks_completed += 1 ... ; await session.commit()
CompleteAgentCommit(c) ==
    /\ pc[c] = "c_metrics"
    /\ agents' = [agents EXCEPT ![call[c].a] =
                      FlushAgent(agents[call[c].a], call[c].ag, AgentCompleted(call[c].ag))]
    /\ pc' = [pc EXCEPT ![c] = "c_cache"]
    /\ UNCHANGED <<tasks, sessions, task_queue, cache, session_cache, last, scen, call>>
    /\ UNCHANGED lockVars

\* cache.delete(f"task:{identifier}")
CompleteCache(c) ==
    /\ pc[c] = "c_cache"
    /\ cache' = [cache EXCEPT ![call[c].t] = NoEntry]
    /\ pc' = [pc EXCEPT ![c] = "c_resolve"]
    /\ UNCHANGED <<tasks, agents, sessions, task_queue, session_cache, last, scen, call>>
    /\ UNCHANGED lockVars

\* await self._check_and_unblock_dependencies(identifier)
CompleteResolve(c) ==
    /\ pc[c] = "c_resolve"
    /\ tasks' = ResolverTasks(tasks, call[c].t)
    /\ task_queue' = ResolverQueue(tasks, task_queue, call[c].t, 1)
    /\ pc' = [pc EXCEPT ![c] = "c_publish"]
    /\ UNCHANGED <<agents, sessions, cache, session_cache, last, scen, call>>
    /\ UNCHANGED lockVars

\* publish 'completed'; return True
CompletePublish(c) ==
    /\ pc[c] = "c_publish"
    /\ pc' = [pc EXCEPT ![c] = "done"]
    /\ call' = [call EXCEPT ![c].ret = AfterPublish("task_updates")]
    /\ UNCHANGED storeVars
    /\ UNCHANGED lockVars

\* task = await self.get_task(identifier);
\* if not task or task.status != TaskStatus.FAILED: return False
RetryBegin(c, t) ==
    /\ pc[c] = "idle"
    /\ TaskExists(t) => tasks[t].retry_count < MaxRetry
    /\ IF TaskExists(t) /\ tasks[t].status = "failed"
       THEN /\ pc' = [pc EXCEPT ![c] = "r_update"]
            /\ call' = [call EXCEPT ![c] = MidCall("retry_task", t, tasks[t])]
       ELSE /\ pc' = [pc EXCEPT ![c] = "done"]
            /\ call' = [call EXCEPT ![c] = EndCall("retry_task", t, "false")]
    /\ UNCHANGED storeVars
    /\ UNCHANGED lockVars

\* WHERE clause of retry_task's UPDATE: the identifier only
RetryWhere(row) == TRUE

\* VALUES of retry_task's UPDATE: retry_count comes from the Task read before
RetryValues(row, retry_count) ==
    [row EXCEPT !.status = "pending", !.retry_count = retry_count + 1, !.err = FALSE]

\* update(Task).where(Task.identifier == identifier).values(...); commit
RetryUpdate(c) ==
    /\ pc[c] = "r_update"
    /\ LET t == call[c].t
       IN  IF RetryWhere(tasks[t])
           THEN /\ tasks' = [tasks EXCEPT ![t] = RetryValues(tasks[t], call[c].retry_count)]
                /\ pc' = [pc EXCEPT ![c] = "r_cache"]
                /\ UNCHANGED call
           ELSE /\ pc' = [pc EXCEPT ![c] = "done"]
                /\ call' = [call EXCEPT ![c].ret = "false"]
                /\ UNCHANGED tasks
    /\ UNCHANGED <<agents, sessions, task_queue, cache, session_cache, last, scen>>
    /\ UNCHANGED lockVars

\* if not task.assigned_agent_id: self._task_queue.append(task.id); cache.delete
RetryCache(c) ==
    /\ pc[c] = "r_cache"
    /\ task_queue' = IF call[c].a = NoAgent
                     THEN Append(task_queue, call[c].t)
                     ELSE task_queue
    /\ cache' = [cache EXCEPT ![call[c].t] = NoEntry]
    /\ pc' = [pc EXCEPT ![c] = "r_publish"]
    /\ UNCHANGED <<tasks, agents, sessions, session_cache, last, scen, call>>
    /\ UNCHANGED lockVars

\* publish 'retried'; return True
RetryPublish(c) ==
    /\ pc[c] = "r_publish"
    /\ pc' = [pc EXCEPT ![c] = "done"]
    /\ call' = [call EXCEPT ![c].ret = AfterPublish("task_updates")]
    /\ UNCHANGED storeVars
    /\ UNCHANGED lockVars

\* ------------------------------------------------------------------ RedisLock
\* client.set without nx=True: the value is written whatever the key holds
SetEx(cur, ttl, value, timeout) == [token |-> value, ttl |-> timeout, ok |-> TRUE]

\* client.set(key, value, nx=True, ex=timeout) on a key holding cur/ttl
SetNxEx(cur, ttl, value, timeout) ==
    IF cur = NoToken
    THEN [token |-> value, ttl |-> timeout, ok |-> TRUE]
    ELSE [token |-> cur, ttl |-> ttl, ok |-> FALSE]

\* a release script that answers 1 to the owner without deleting the key
CompareAndKeep(cur, ttl, value) == [token |-> cur, ttl |-> ttl, ok |-> cur = value]

\* a release that deletes the key without comparing the stored value
DeleteAlways(cur, ttl, value) == [token |-> NoToken, ttl |-> 0, ok |-> cur # NoToken]

\* the Lua script of release: get == ARGV[1] ? del : 0
CompareAndDelete(cur, ttl, value) ==
    IF cur = value
    THEN [token |-> NoToken, ttl |-> 0, ok |-> TRUE]
    ELSE [token |-> cur, ttl |-> ttl, ok |-> FALSE]

LockReturned(rec, op, ret) ==
    [rec EXCEPT !.pc = "idle", !.op = op, !.ret = ret, !.n = 1 - rec.n]

\* acquire: a new identifier replaces the instance's, whatever SET answers
Acquire(i) ==
    /\ inst[i].pc = "idle"
    /\ next_token <= MaxTokens
    /\ LET r == SetNxEx(lock_token, lock_ttl, next_token, LockTimeout)
       IN  /\ lock_token' = r.token
           /\ lock_ttl' = r.ttl
           /\ inst' = [inst EXCEPT ![i] =
                  [LockReturned(inst[i], "acquire", r.ok) EXCEPT
                      !.identifier = next_token,
                      !.expired = IF r.ok THEN FALSE ELSE inst[i].expired]]
    /\ next_token' = next_token + 1
    /\ UNCHANGED <<storeVars, raceVars>>

Release(i) ==
    /\ inst[i].pc = "idle"
    /\ IF inst[i].identifier = NoToken
       THEN /\ inst' = [inst EXCEPT ![i] = LockReturned(inst[i], "release", FALSE)]
            /\ UNCHANGED <<lock_token, lock_ttl>>
       ELSE LET r == CompareAndDelete(lock_token, lock_ttl, inst[i].identifier)
            IN  /\ lock_token' = r.token
                /\ lock_ttl' = r.ttl
                /\ inst' = [inst EXCEPT ![i] = LockReturned(inst[i], "release", r.ok)]
    /\ UNCHANGED <<next_token, storeVars, raceVars>>

\* extend, up to the answer of client.get(self.key)
ExtendGet(i) ==
    /\ inst[i].pc = "idle"
    /\ IF inst[i].identifier # NoToken /\ lock_token = inst[i].identifier
       THEN inst' = [inst EXCEPT ![i].pc = "expire"]
       ELSE inst' = [inst EXCEPT ![i] = LockReturned(inst[i], "extend", FALSE)]
    /\ UNCHANGED <<lock_token, lock_ttl, next_token, storeVars, raceVars>>

\* extend, client.expire(self.key, self.timeout + additional_time): true if the
\* key exists
ExtendExpire(i) ==
    /\ inst[i].pc = "expire"
    /\ IF lock_token # NoToken
       THEN /\ lock_ttl' = LockTimeout + AddTime
            /\ inst' = [inst EXCEPT ![i] = LockReturned(inst[i], "extend", TRUE)]
       ELSE /\ lock_ttl' = lock_ttl
            /\ inst' = [inst EXCEPT ![i] = LockReturned(inst[i], "extend", FALSE)]
    /\ UNCHANGED <<lock_token, next_token, storeVars, raceVars>>

\* a clock tick on a key that was stored without an expiry: nothing happens
TickNoExpiry ==
    /\ lock_token # NoToken
    /\ UNCHANGED <<lock_token, lock_ttl, inst>>
    /\ UNCHANGED <<next_token, storeVars, raceVars>>

\* a clock tick: the key loses one tick of life and is deleted at its expiry
Tick ==
    /\ lock_token # NoToken
    /\ IF lock_ttl > 1
       THEN /\ lock_ttl' = lock_ttl - 1
            /\ UNCHANGED <<lock_token, inst>>
       ELSE /\ lock_ttl' = 0
            /\ lock_token' = NoToken
            /\ inst' = [i \in Insts |-> [inst[i] EXCEPT !.expired = TRUE]]
    /\ UNCHANGED <<next_token, storeVars, raceVars>>

\* ------------------------------------------------------------- specification
\* Any caller, any operation, each handler run to completion.
Next ==
    \/ Len(sessions) < MaxSessions /\ CreateSession /\ UNCHANGED <<raceVars, lockVars>>
    \/ \E s \in SessionIds : GetSessionProgress(s) /\ UNCHANGED <<raceVars, lockVars>>
    \/ \E s \in SessionIds, a \in AgentIds \cup {NoAgent}, d \in DepLists :
          Len(tasks) < MaxTasks /\ CreateTask(s, d, a) /\ UNCHANGED <<raceVars, lockVars>>
    \/ \E t \in TaskIds, a \in AgentIds \cup {UnknownAgent} :
          AssignTask(t, a) /\ UNCHANGED <<raceVars, lockVars>>
    \/ \E t \in TaskIds : StartTask(t) /\ UNCHANGED <<raceVars, lockVars>>
    \/ \E t \in TaskIds : CompleteTask(t) /\ UNCHANGED <<raceVars, lockVars>>
    \/ \E t \in TaskIds : FailTask(t) /\ UNCHANGED <<raceVars, lockVars>>
    \/ \E t \in TaskIds : RetryTask(t) /\ UNCHANGED <<raceVars, lockVars>>

Spec == Init /\ [][Next]_vars

\* A driver that builds one dependency chain in one session (every task created
\* unassigned and depending on the task created before it, the first on none)
\* and assigns, starts and completes its tasks in any order.
ChainDeps == IF tasks = <<>> THEN <<>> ELSE <<Len(tasks)>>

NextChain ==
    \/ sessions = <<>> /\ CreateSession /\ UNCHANGED <<raceVars, lockVars>>
    \/ Len(tasks) < ChainLen /\ CreateTask(1, ChainDeps, NoAgent) /\ UNCHANGED <<raceVars, lockVars>>
    \/ \E t \in ChainIds, a \in AgentIds : AssignTask(t, a) /\ UNCHANGED <<raceVars, lockVars>>
    \/ \E t \in ChainIds : StartTask(t) /\ UNCHANGED <<raceVars, lockVars>>
    \/ \E t \in ChainIds : CompleteTask(t) /\ UNCHANGED <<raceVars, lockVars>>

SpecChain == Init /\ [][NextChain]_vars

\* Concurrent callers of assign_task, each making one call, on tasks created with
\* or without an assigned agent.
NextRace ==
    \/ sessions = <<>> /\ CreateSession /\ UNCHANGED <<raceVars, lockVars>>
    \/ \E a \in AgentIds \cup {NoAgent} :
          Len(tasks) < RaceTasks /\ CreateTask(1, <<>>, a) /\ UNCHANGED <<raceVars, lockVars>>
    \/ \E c \in Callers, t \in 1..RaceTasks, a \in AgentIds \cup {UnknownAgent} :
          AssignBegin(c, t, a)
    \/ \E c \in Callers : AssignUpdate(c)
    \/ \E c \in Callers : AssignAgent(c)
    \/ \E c \in Callers : AssignCache(c)
    \/ \E c \in Callers : AssignDequeue(c)
    \/ \E c \in Callers : AssignPublish(c)

SpecRace == Init /\ [][NextRace]_vars

\* Concurrent callers of complete_task and retry_task, each making one call,
\* beside clients whose calls run without interruption.
NextCallers ==
    \/ sessions = <<>> /\ CreateSession /\ UNCHANGED <<raceVars, lockVars>>
    \/ \E a \in AgentIds \cup {NoAgent} :
          Len(tasks) < RaceTasks /\ CreateTask(1, <<>>, a) /\ UNCHANGED <<raceVars, lockVars>>
    \/ \E t \in 1..RaceTasks, a \in AgentIds :
          AssignTask(t, a) /\ UNCHANGED <<raceVars, lockVars>>
    \/ \E t \in 1..RaceTasks : StartTask(t) /\ UNCHANGED <<raceVars, lockVars>>
    \/ \E t \in 1..RaceTasks : CompleteTask(t) /\ UNCHANGED <<raceVars, lockVars>>
    \/ \E t \in 1..RaceTasks : FailTask(t) /\ UNCHANGED <<raceVars, lockVars>>
    \/ \E c \in Callers, t \in 1..RaceTasks : CompleteBegin(c, t)
    \/ \E c \in Callers : CompleteUpdate(c)
    \/ \E c \in Callers : CompleteAgentSelect(c)
    \/ \E c \in Callers : CompleteAgentCommit(c)
    \/ \E c \in Callers : CompleteCache(c)
    \/ \E c \in Callers : CompleteResolve(c)
    \/ \E c \in Callers : CompletePublish(c)
    \/ \E c \in Callers, t \in 1..RaceTasks : RetryBegin(c, t)
    \/ \E c \in Callers : RetryUpdate(c)
    \/ \E c \in Callers : RetryCache(c)
    \/ \E c \in Callers : RetryPublish(c)

SpecCallers == Init /\ [][NextCallers]_vars

\* Concurrent callers of the session transitions, each making one call, beside
\* clients whose calls run without interruption.
NextSessions ==
    \/ Len(sessions) < MaxSessions /\ CreateSession /\ UNCHANGED <<raceVars, lockVars>>
    \/ \E s \in SessionIds : StartSession(s) /\ UNCHANGED <<raceVars, lockVars>>
    \/ \E s \in SessionIds : PauseSession(s) /\ UNCHANGED <<raceVars, lockVars>>
    \/ \E s \in SessionIds : CompleteSession(s) /\ UNCHANGED <<raceVars, lockVars>>
    \/ \E s \in SessionIds : FailSession(s) /\ UNCHANGED <<raceVars, lockVars>>
    \/ \E c \in Callers, op \in SessionOps, s \in SessionIds : SessionBegin(c, op, s)
    \/ \E c \in Callers : SessionUpdate(c)
    \/ \E c \in Callers : SessionCacheDelete(c)
    \/ \E c \in Callers : SessionPublish(c)

SpecSessions == Init /\ [][NextSessions]_vars

\* The life cycles of sessions and of the tasks under them, side by side: every
\* SessionManager transition, every TaskCoordinator transition, and the reads.
NextLife ==
    \/ Len(sessions) < MaxSessions /\ CreateSession /\ UNCHANGED <<raceVars, lockVars>>
    \/ \E s \in SessionIds, a \in AgentIds \cup {NoAgent} :
          Len(tasks) < LifeTasks /\ CreateTask(s, <<>>, a) /\ UNCHANGED <<raceVars, lockVars>>
    \/ \E s \in SessionIds : StartSession(s) /\ UNCHANGED <<raceVars, lockVars>>
    \/ \E s \in SessionIds : PauseSession(s) /\ UNCHANGED <<raceVars, lockVars>>
    \/ \E s \in SessionIds : CompleteSession(s) /\ UNCHANGED <<raceVars, lockVars>>
    \/ \E s \in SessionIds : FailSession(s) /\ UNCHANGED <<raceVars, lockVars>>
    \/ \E s \in SessionIds : ArchiveSession(s) /\ UNCHANGED <<raceVars, lockVars>>
    \/ \E s \in SessionIds : GetSession(s) /\ UNCHANGED <<raceVars, lockVars>>
    \/ \E t \in 1..LifeTasks, a \in AgentIds \cup {UnknownAgent} :
          AssignTask(t, a) /\ UNCHANGED <<raceVars, lockVars>>
    \/ \E t \in 1..LifeTasks : StartTask(t) /\ UNCHANGED <<raceVars, lockVars>>
    \/ \E t \in 1..LifeTasks : CompleteTask(t) /\ UNCHANGED <<raceVars, lockVars>>
    \/ \E t \in 1..LifeTasks : FailTask(t) /\ UNCHANGED <<raceVars, lockVars>>
    \/ \E t \in 1..LifeTasks : RetryTask(t) /\ UNCHANGED <<raceVars, lockVars>>
    \/ \E t \in 1..LifeTasks : GetTask(t) /\ UNCHANGED <<raceVars, lockVars>>

SpecLife == Init /\ [][NextLife]_vars

\* RedisLock instances on one key, each used by one caller at a time, and the clock.
NextLock ==
    \/ \E i \in Insts : Acquire(i)
    \/ \E i \in Insts : Release(i)
    \/ \E i \in Insts : ExtendGet(i)
    \/ \E i \in Insts : ExtendExpire(i)
    \/ Tick

SpecLock == Init /\ [][NextLock]_vars

\* ===================================================================== claims
StatusCount(s, st) ==
    Cardinality({t \in 1..Len(tasks) : tasks[t].session = s /\ tasks[t].status = st})

\* C1: a task with dependencies is InProgress or Completed only if every task
\* its dependencies list names is Completed.
C1_DependenciesCompletedFirst ==
    \A t \in 1..Len(tasks) :
        tasks[t].status \in {"in_progress", "completed"}
            => \A i \in 1..Len(tasks[t].deps) :
                   tasks[tasks[t].deps[i]].status = "completed"

\* C3: a task that has an assigned agent is never given a different assigned
\* agent (assign_task writes only when the stored agent is null).
C3_AssignedAgentKept ==
    [][\A t \in 1..Len(tasks) :
          tasks[t].agent # NoAgent => tasks'[t].agent = tasks[t].agent]_vars

\* C4: the task create_task returns is Blocked if its dependencies list is
\* non-empty and Pending if it is empty.
C4_CreatedBlockedIffDependencies ==
    (last.op = "create_task" /\ last.ret = "task")
        => LET row == tasks[Len(tasks)]
           IN  row.status = IF row.deps # <<>> THEN "blocked" ELSE "pending"

\* C5: in the chain A <- B <- C, once A is completed and until B is, B has left
\* Blocked and C is still Blocked; once B is completed, C is no longer Blocked.
C5_ChainFanOut ==
    Len(tasks) = ChainLen =>
        /\ (tasks[1].status = "completed" /\ tasks[2].status # "completed")
               => /\ tasks[2].status \in {"pending", "assigned", "in_progress"}
                  /\ tasks[3].status = "blocked"
        /\ tasks[2].status = "completed" => tasks[3].status # "blocked"

\* C6: get_session_progress(S) reports the number of S's tasks, how many of them
\* are Completed, Failed and InProgress, and 100 * completed / total (0 when S
\* has no task); in the two-task scenario every assign, start and complete call
\* returns true and the progress of S is then total 2, completed 2, 100 percent.
C6_SessionProgress ==
    /\ (last.op = "get_session_progress" /\ last.ret = "dict") =>
           LET s == last.val.session_id
               n == Cardinality({t \in 1..Len(tasks) : tasks[t].session = s})
           IN  /\ last.val.total = n
               /\ last.val.completed = StatusCount(s, "completed")
               /\ last.val.failed = StatusCount(s, "failed")
               /\ last.val.in_progress = StatusCount(s, "in_progress")
               /\ last.val.pct_num * n = 100 * StatusCount(s, "completed") * last.val.pct_den
               /\ n = 0 => last.val.pct_num = 0
    /\ (scen.step >= 4 /\ last.op \in {"assign_task", "start_task", "complete_task"})
           => last.ret = "true"
    /\ (scen.step = 9 /\ last.op = "get_session_progress"
           /\ last.val.session_id = scen.S)
           => /\ last.val.total = 2
              /\ last.val.completed = 2
              /\ last.val.pct_num = 100 * last.val.pct_den

\* the progress of a session that holds tasks in several statuses, and the
\* progress of S at the end of the scenario, have been read
C6_Witness ==
    /\ scen.step = 9
    /\ last.op = "get_session_progress"
    /\ last.val.session_id = scen.S
    /\ \E t \in 1..Len(tasks) : tasks[t].session = scen.S /\ tasks[t].agent # NoAgent

\* C2: of the concurrent assign_task calls made on a task while it was Pending
\* and unassigned, exactly one returns true and the others false; the task's
\* assigned agent is the winner's; a call that returns false writes neither the
\* task nor any agent.
CallersOf(t) == {c \in Callers : pc[c] # "idle" /\ call[c].t = t /\ call[c].a \in AgentIds}
Racers(t) == {c \in CallersOf(t) : call[c].fresh}
Won(c) == pc[c] \in {"agent", "cache", "dequeue", "publish"}
              \/ (pc[c] = "done" /\ call[c].ret = "true")

C2_ExactlyOneWinner ==
    \A t \in 1..Len(tasks) :
        /\ Cardinality({c \in CallersOf(t) : Won(c)}) <= 1
        /\ \A c \in CallersOf(t) : Won(c) => tasks[t].agent = call[c].a
        /\ (Racers(t) # {} /\ \A c \in CallersOf(t) : pc[c] = "done")
              => /\ Cardinality({c \in CallersOf(t) : call[c].ret = "true"}) = 1
                 /\ \A c \in CallersOf(t) : call[c].ret \in {"true", "false"}

C2_LoserWritesNothing ==
    \A c \in Callers :
        (pc[c] # "done" /\ pc'[c] = "done" /\ call'[c].ret = "false")
            => (tasks' = tasks /\ agents' = agents)

C2_AssignExclusive == [](C2_ExactlyOneWinner) /\ [][C2_LoserWritesNothing]_vars

\* every caller raced for the same Pending, unassigned task, with different
\* agents, and all have returned
C2_Witness ==
    /\ Len(tasks) >= 1
    /\ Racers(1) = Callers
    /\ \A c \in Callers : pc[c] = "done"
    /\ \E c, d \in Callers : call[c].a # call[d].a
    /\ \E c \in Callers : call[c].ret = "false"

\* --------------------------------------------------------------------- lock
\* instance i returns from a call of op in this step
LockCall(i, op) == inst'[i].n # inst[i].n /\ inst'[i].op = op
Holds(i) == inst[i].identifier # NoToken /\ inst[i].identifier = lock_token

\* acquire() on an absent key succeeds
AcquireOnAbsent ==
    \A i \in Insts : (LockCall(i, "acquire") /\ lock_token = NoToken) => inst'[i].ret

\* C7 as stated: on any instance, release() after a successful acquire() returns
\* true and leaves the key absent, so that a following acquire() succeeds.
C7_RoundTripAlways ==
    [][/\ \A i \in Insts :
             (inst[i].op = "acquire" /\ inst[i].ret /\ LockCall(i, "release"))
                 => (inst'[i].ret /\ lock_token' = NoToken)
       /\ AcquireOnAbsent]_vars

\* C7 amended: the same, provided the key has not expired between the acquire()
\* and the release().
C7_RoundTripUnlessExpired ==
    [][/\ \A i \in Insts :
             (inst[i].op = "acquire" /\ inst[i].ret /\ ~inst[i].expired
                  /\ LockCall(i, "release"))
                 => (inst'[i].ret /\ lock_token' = NoToken)
       /\ AcquireOnAbsent]_vars

\* an instance released what it had acquired while another instance was waiting
\* with a refused acquire, and that instance then acquired the key
C7_Witness ==
    \E i, j \in Insts :
        /\ i # j
        /\ inst[i].op = "release" /\ inst[i].ret /\ ~inst[i].expired
        /\ inst[j].op = "acquire" /\ inst[j].ret /\ Holds(j)

\* C8: release() by an instance whose token is not the stored one returns false
\* and leaves the stored token and its expiry unchanged; the key is deleted only
\* by its expiry or by release() of the instance whose token is stored.
C8_ForeignReleaseRefused ==
    [][/\ \A i \in Insts :
             (LockCall(i, "release") /\ ~Holds(i))
                 => (~inst'[i].ret /\ lock_token' = lock_token /\ lock_ttl' = lock_ttl)
       /\ (lock_token # NoToken /\ lock_token' # lock_token)
             => \/ inst' = [i \in Insts |-> [inst[i] EXCEPT !.expired = TRUE]]
                \/ \E i \in Insts : Holds(i) /\ LockCall(i, "release")]_vars

\* an instance whose lock expired and was acquired by another instance has
\* called release()
C8_Witness ==
    \E i \in Insts :
        /\ inst[i].op = "release" /\ ~inst[i].ret
        /\ inst[i].identifier # NoToken /\ inst[i].expired
        /\ lock_token # NoToken /\ ~Holds(i)

\* C9: at most one instance has its token stored under the key, and acquire() on
\* a key that holds a token returns failure and changes neither the token nor
\* its expiry.
C9_AtMostOneHolder == Cardinality({i \in Insts : Holds(i)}) <= 1

C9_AcquireRefused ==
    \A i \in Insts :
        (LockCall(i, "acquire") /\ lock_token # NoToken)
            => (~inst'[i].ret /\ lock_token' = lock_token /\ lock_ttl' = lock_ttl)

C9_MutualExclusion == [](C9_AtMostOneHolder) /\ [][C9_AcquireRefused]_vars

\* an acquire() was refused and the key still holds the other instance's token
C9_Witness ==
    \E i, j \in Insts :
        /\ i # j
        /\ inst[i].op = "acquire" /\ ~inst[i].ret
        /\ Holds(j) /\ lock_ttl < LockTimeout

\* C10: extend() by an instance whose token is not the stored one returns false
\* and changes neither the stored token nor its expiry.
C10_ExtendOnlyOwnLock ==
    [][\A i \in Insts :
          (LockCall(i, "extend") /\ ~Holds(i))
              => (~inst'[i].ret /\ lock_token' = lock_token /\ lock_ttl' = lock_ttl)]_vars

\* the status each transition writes
TaskPost ==
    [assign_task |-> "assigned", start_task |-> "in_progress",
     complete_task |-> "completed", fail_task |-> "failed", retry_task |-> "pending"]
SessionPost ==
    [start_session |-> "active", pause_session |-> "paused",
     complete_session |-> "completed", fail_session |-> "failed",
     archive_session |-> "archived"]

\* the call that has just returned is a successful transition op
Succeeded(op) == last'.op = op /\ last'.ret = "true"

\* C11: a read returns the record the store holds at the time of the read, and
\* a transition that returns success has left the post-transition status in the
\* store; so no get_session / get_task after a successful transition returns
\* the pre-transition status.
C11_ReadIsStored ==
    /\ (last.op = "get_task" /\ last.ret = "record")
           => last.val.row = tasks[last.val.id]
    /\ (last.op = "get_session" /\ last.ret = "record")
           => last.val.row = sessions[last.val.id]

C11_SuccessIsStored ==
    /\ \A op \in DOMAIN TaskPost :
          Succeeded(op) =>
              \E t \in 1..Len(tasks) :
                  /\ tasks'[t].status = TaskPost[op]
                  /\ tasks[t].status # TaskPost[op] \/ op = "fail_task"
    /\ \A op \in DOMAIN SessionPost :
          Succeeded(op) =>
              \E s \in 1..Len(sessions) :
                  /\ sessions'[s].status = SessionPost[op]
                  /\ sessions[s].status # SessionPost[op]

C11_NoStaleRead == [](C11_ReadIsStored) /\ [][C11_SuccessIsStored]_vars

\* a task read back Pending after fail_task and retry_task, beside an archived
\* session
C11_Witness ==
    /\ last.op = "get_task" /\ last.ret = "record"
    /\ last.val.row.status = "pending" /\ last.val.row.retry_count = 1
    /\ \E s \in 1..Len(sessions) : sessions[s].status = "archived"

RECURSIVE SumCompleted(_)
\* tasks_completed summed over the agents of S
SumCompleted(S) ==
    IF S = {} THEN 0
    ELSE LET a == CHOOSE x \in S : TRUE
         IN  agents[a].tasks_completed + SumCompleted(S \ {a})

\* C12: completing is counted once: whatever complete_task calls are made on a
\* task, one after another or concurrently, the task adds at most 1 to the
\* tasks_completed of the agents.
C12_CountedOnce == SumCompleted(AgentIds) <= Len(tasks)

\* C16: a task whose stored status is Completed or Cancelled keeps that status
\* in every step of every TaskCoordinator operation.
C16_TerminalImmutable ==
    [][\A t \in 1..Len(tasks) :
          tasks[t].status \in {"completed", "cancelled"}
              => tasks'[t].status = tasks[t].status]_vars

\* the retry_task calls on t that have returned true
RetriedBy(t) ==
    {c \in Callers : pc[c] = "done" /\ call[c].op = "retry_task"
                     /\ call[c].t = t /\ call[c].ret = "true"}

\* C17: once every retry_task call has returned, a task's retry_count is the
\* number of retry_task calls on it that returned true (so of two concurrent
\* calls on a Failed task exactly one returns true).
C17_RetryCounted ==
    (\A c \in Callers : pc[c] \in {"idle", "done"})
        => \A t \in 1..Len(tasks) : tasks[t].retry_count = Cardinality(RetriedBy(t))

\* C13: a call of start_session, pause_session, complete_session or
\* archive_session returns true if and only if its conditional UPDATE was the
\* one applied (so of two concurrent calls the winner returns true and the
\* other false).
C13_WinnerReturnsTrue ==
    \A c \in Callers :
        (pc[c] = "done" /\ call[c].op \in SessionOps \ {"fail_session"})
            => (call[c].ret = "true" <=> call[c].rowcount = 1)

\* the edges of the session state machine
SessionEdges ==
    {<<"planning", "active">>, <<"active", "paused">>, <<"paused", "active">>,
     <<"active", "completed">>, <<"paused", "completed">>}
    \cup ({"planning", "active", "paused"} \X {"failed", "cancelled"})
    \cup ({"completed", "failed", "cancelled"} \X {"archived"})

\* C14: every change of a session's stored status is an edge of the session
\* state machine.
C14_OnlyEdges ==
    [][\A s \in 1..Len(sessions) :
          sessions'[s].status # sessions[s].status
              => <<sessions[s].status, sessions'[s].status>> \in SessionEdges]_vars

\* C15: Archived is terminal: once a session's status is Archived no operation
\* changes it.
C15_ArchivedTerminal ==
    [][\A s \in 1..Len(sessions) :
          sessions[s].status = "archived" => sessions'[s].status = "archived"]_vars

\* C18: when fail_session moves a session out of Planning, Active or Paused the
\* status becomes Failed, the call returns true and the failure reason is in
\* the stored metadata.
C18_FailRecordsReason ==
    [][\A s \in 1..Len(sessions) :
          (/\ last'.op = "fail_session"
           /\ sessions[s].status \in {"planning", "active", "paused"}
           /\ sessions'[s] # sessions[s])
              => /\ sessions'[s].status = "failed"
                 /\ "failure_reason" \in sessions'[s].meta_data
                 /\ last'.ret = "true"]_vars

\* C19: when complete_session moves an Active or Paused session to Completed
\* it returns true and changes no task, whatever the tasks' statuses.
C19_CompleteIgnoresTasks ==
    [][\A s \in 1..Len(sessions) :
          (/\ last'.op = "complete_session"
           /\ sessions[s].status \in {"active", "paused"}
           /\ sessions'[s] # sessions[s])
              => /\ sessions'[s].status = "completed"
                 /\ last'.ret = "true"
                 /\ tasks' = tasks]_vars

\* the transition operations of both services
TransitionOps == SessionOps \cup DOMAIN TaskPost

\* the step changes a stored status
StatusChanged ==
    \/ \E s \in 1..Len(sessions) : sessions'[s].status # sessions[s].status
    \/ \E t \in 1..Len(tasks) : tasks'[t].status # tasks[t].status

\* C20: a transition operation whose conditional update changed a stored
\* status returns true (a publish that fails after the commit does not turn
\* the result into false), and one that returns true has applied its update
\* (fail_task and fail_session also rewrite Failed over Failed).
C20_TrueIffApplied ==
    [][last'.op \in TransitionOps =>
          /\ StatusChanged => last'.ret = "true"
          /\ last'.ret = "true"
                => (StatusChanged \/ last'.op \in {"fail_task", "fail_session"})]_vars

\* ------------------------------------------------- a cache that is unreachable
\* RedisCache.get and RedisCache.delete have no handler of their own: when the
\* client cannot reach Redis the exception travels to the caller's except
\* clause.  up is whether Redis answers during the call.

\* a call that returned, with the identifier it was made on
ReturnedOn(op, ret, id, up) == [op |-> op, ret |-> ret, val |-> [id |-> id, up |-> up]]

\* the handler's `except Exception: return False` (None for the reads) reached
\* before any statement was sent to the store
CacheRaised(op, ret, id) ==
    /\ last' = ReturnedOn(op, ret, id, FALSE)
    /\ scen' = NoScen
    /\ UNCHANGED <<tasks, agents, sessions, task_queue, cache, session_cache>>

\* get_task: cache.get is awaited inside the try, before the SELECT
GetTaskVia(t, up) ==
    IF up
    THEN /\ last' = IF TaskExists(t)
                    THEN [op |-> "get_task", ret |-> "record",
                          val |-> [id |-> t, up |-> TRUE, row |-> tasks[t]]]
                    ELSE ReturnedOn("get_task", "none", t, TRUE)
         /\ UNCHANGED <<tasks, agents, sessions, task_queue, cache, session_cache, scen>>
    ELSE CacheRaised("get_task", "none", t)

\* get_session: cache.get is awaited inside the try, before the SELECT
GetSessionVia(s, up) ==
    IF up
    THEN /\ last' = IF SessionExists(s)
                    THEN [op |-> "get_session", ret |-> "record",
                          val |-> [id |-> s, up |-> TRUE, row |-> sessions[s]]]
                    ELSE ReturnedOn("get_session", "none", s, TRUE)
         /\ UNCHANGED <<tasks, agents, sessions, task_queue, cache, session_cache, scen>>
    ELSE CacheRaised("get_session", "none", s)

\* start_task does not read the task first: the UPDATE is committed, then
\* cache.delete raises and the handler returns False
StartTaskVia(t, up) ==
    IF up
    THEN StartTask(t)
    ELSE /\ tasks' = IF TaskExists(t) /\ StartWhere(tasks[t])
                     THEN [tasks EXCEPT ![t].status = "in_progress", ![t].started = TRUE]
                     ELSE tasks
         /\ last' = ReturnedOn("start_task", "false", t, FALSE)
         /\ scen' = NoScen
         /\ UNCHANGED <<agents, sessions, task_queue, cache, session_cache>>

\* complete_task, fail_task, retry_task: `task = await self.get_task(...)`,
\* `if not task: return False`
CompleteTaskVia(t, up) == IF up THEN CompleteTask(t) ELSE CacheRaised("complete_task", "false", t)
FailTaskVia(t, up) == IF up THEN FailTask(t) ELSE CacheRaised("fail_task", "false", t)
RetryTaskVia(t, up) == IF up THEN RetryTask(t) ELSE CacheRaised("retry_task", "false", t)

\* One session, its tasks, and a Redis that comes and goes between the calls.
NextCache ==
    \/ sessions = <<>> /\ CreateSession /\ UNCHANGED <<raceVars, lockVars>>
    \/ \E a \in AgentIds \cup {NoAgent} :
          Len(tasks) < MaxTasks /\ CreateTask(1, <<>>, a) /\ UNCHANGED <<raceVars, lockVars>>
    \/ \E t \in TaskIds, up \in BOOLEAN : GetTaskVia(t, up) /\ UNCHANGED <<raceVars, lockVars>>
    \/ \E s \in SessionIds, up \in BOOLEAN :
          GetSessionVia(s, up) /\ UNCHANGED <<raceVars, lockVars>>
    \/ \E t \in TaskIds, up \in BOOLEAN : StartTaskVia(t, up) /\ UNCHANGED <<raceVars, lockVars>>
    \/ \E t \in TaskIds, up \in BOOLEAN :
          CompleteTaskVia(t, up) /\ UNCHANGED <<raceVars, lockVars>>
    \/ \E t \in TaskIds, up \in BOOLEAN : FailTaskVia(t, up) /\ UNCHANGED <<raceVars, lockVars>>
    \/ \E t \in TaskIds, up \in BOOLEAN : RetryTaskVia(t, up) /\ UNCHANGED <<raceVars, lockVars>>

SpecCache == Init /\ [][NextCache]_vars

\* the call that has just returned was made while Redis did not answer
CacheWasDown == "up" \in DOMAIN last.val /\ ~last.val.up

\* C21: a cache fault degrades to a store read.  With Redis unreachable,
\* get_task and get_session of an existing identifier still return the stored
\* record, and complete_task, fail_task and retry_task are not refused on a
\* task whose stored status satisfies their precondition.
C21_CacheNotRequired ==
    /\ [](/\ (CacheWasDown /\ last.op = "get_task" /\ TaskExists(last.val.id))
                 => last.ret = "record"
          /\ (CacheWasDown /\ last.op = "get_session" /\ SessionExists(last.val.id))
                 => last.ret = "record")
    /\ [][(CacheWasDown' /\ last'.ret = "false" /\ TaskExists(last'.val.id))
             => LET row == tasks[last'.val.id]
                IN  /\ last'.op = "complete_task" => ~CompleteWhere(row)
                    /\ last'.op = "fail_task" => ~FailWhere(row)
                    /\ last'.op = "retry_task" => row.status # "failed"]_vars

\* the statuses from which each task transition is permitted
TaskPre ==
    [assign_task |-> {"pending"}, start_task |-> {"pending", "assigned"},
     complete_task |-> {"in_progress"},
     fail_task |-> {"pending", "assigned", "in_progress", "reviewing", "failed", "blocked"},
     retry_task |-> {"failed"}]

PriorityRank(p) == CHOOSE i \in DOMAIN Priorities : Priorities[i] = p

\* WHERE assigned_agent_id IS NULL AND status = PENDING AND dependencies = []
NextTaskWhere(row) ==
    row.agent = NoAgent /\ row.status = "pending" /\ row.deps = <<>>

\* ORDER BY priority DESC, created_at: row u comes before row t.  Rows are
\* stored in the order of their creation.
ComesBefore(u, t) ==
    \/ PriorityRank(tasks[u].priority) > PriorityRank(tasks[t].priority)
    \/ tasks[u].priority = tasks[t].priority /\ u < t

\* the rows the query selects, and the first of them
NextTaskRows == {t \in 1..Len(tasks) : NextTaskWhere(tasks[t])}
FirstNextTask == CHOOSE t \in NextTaskRows : \A u \in NextTaskRows : ~ComesBefore(u, t)

\* get_next_task_for_agent.  dependencies is a json column and the store is
\* PostgreSQL, whose json type has no equality operator: the statement is
\* rejected and the handler's `except Exception` returns None.  json_eq is
\* whether the store evaluates the comparison.
GetNextTaskForAgent(a, json_eq) ==
    /\ last' = IF a \in AgentIds /\ json_eq /\ NextTaskRows # {}
               THEN [op |-> "get_next_task_for_agent", ret |-> "record",
                     val |-> [id |-> FirstNextTask, agent |-> a,
                              row |-> tasks[FirstNextTask]]]
               ELSE [op |-> "get_next_task_for_agent", ret |-> "none",
                     val |-> [id |-> 0, agent |-> a]]
    /\ UNCHANGED <<tasks, agents, sessions, task_queue, cache, session_cache, scen>>

\* Tasks of any priority under one session, assigned and started by clients,
\* and agents asking for their next task.
NextLookup ==
    \/ sessions = <<>> /\ CreateSession /\ UNCHANGED <<raceVars, lockVars>>
    \/ \E i \in DOMAIN Priorities, a \in AgentIds \cup {NoAgent}, d \in DepLists :
          /\ Len(tasks) < MaxTasks
          /\ CreateTaskWith(1, Priorities[i], d, a)
          /\ UNCHANGED <<raceVars, lockVars>>
    \/ \E t \in TaskIds, a \in AgentIds : AssignTask(t, a) /\ UNCHANGED <<raceVars, lockVars>>
    \/ \E t \in TaskIds : StartTask(t) /\ UNCHANGED <<raceVars, lockVars>>
    \/ \E a \in AgentIds \cup {UnknownAgent}, json_eq \in BOOLEAN :
          GetNextTaskForAgent(a, json_eq) /\ UNCHANGED <<raceVars, lockVars>>

SpecLookup == Init /\ [][NextLookup]_vars

\* C23: get_next_task_for_agent modifies no record; the task it returns is
\* Pending, unassigned and without dependencies, and no other such task has a
\* higher priority, or the same priority and an earlier creation; it returns
\* nothing if and only if there is no such task or the agent is unknown.
C23_NextTask ==
    [][last'.op = "get_next_task_for_agent" =>
          LET eligible == {t \in 1..Len(tasks) :
                             /\ tasks[t].status = "pending"
                             /\ tasks[t].agent = NoAgent
                             /\ tasks[t].deps = <<>>}
              rank == [p \in {"low", "medium", "high", "urgent"} |->
                          CASE p = "low" -> 1 [] p = "medium" -> 2
                            [] p = "high" -> 3 [] p = "urgent" -> 4]
          IN  /\ tasks' = tasks /\ agents' = agents /\ sessions' = sessions
              /\ task_queue' = task_queue
              /\ last'.ret = "record" =>
                    /\ last'.val.id \in eligible
                    /\ last'.val.row = tasks[last'.val.id]
                    /\ \A u \in eligible :
                          /\ rank[tasks[u].priority] <= rank[last'.val.row.priority]
                          /\ tasks[u].priority = last'.val.row.priority
                                => u >= last'.val.id
              /\ last'.ret = "none"
                    <=> (eligible = {} \/ last'.val.agent \notin AgentIds)]_vars

\* Clients completing and failing the tasks of one session side by side:
\* complete_task statement by statement, the other calls without interruption.
NextMetrics ==
    \/ sessions = <<>> /\ CreateSession /\ UNCHANGED <<raceVars, lockVars>>
    \/ \E a \in AgentIds :
          Len(tasks) < MaxTasks /\ CreateTask(1, <<>>, a) /\ UNCHANGED <<raceVars, lockVars>>
    \/ \E t \in TaskIds : StartTask(t) /\ UNCHANGED <<raceVars, lockVars>>
    \/ \E t \in TaskIds : FailTask(t) /\ UNCHANGED <<raceVars, lockVars>>
    \/ \E c \in Callers, t \in TaskIds : CompleteBegin(c, t)
    \/ \E c \in Callers : CompleteUpdate(c)
    \/ \E c \in Callers : CompleteAgentSelect(c)
    \/ \E c \in Callers : CompleteAgentCommit(c)
    \/ \E c \in Callers : CompleteCache(c)
    \/ \E c \in Callers : CompleteResolve(c)
    \/ \E c \in Callers : CompletePublish(c)

SpecMetrics == Init /\ [][NextMetrics]_vars

\* C24: once complete_task or fail_task has written an agent's metrics, the
\* stored success_rate is 100 * tasks_completed / (tasks_completed +
\* tasks_failed) of the stored counters, its denominator is not zero and it
\* lies within 0..100.
C24_SuccessRate ==
    \A a \in AgentIds :
        LET ag == agents[a]
            r == ag.success_rate
        IN  ~r.null =>
               /\ r.den > 0
               /\ 0 <= r.num /\ r.num <= 100 * r.den
               /\ r.num * (ag.tasks_completed + ag.tasks_failed)
                      = 100 * ag.tasks_completed * r.den

\* the edges of the task state machine
TaskEdges ==
    {<<"pending", "assigned">>, <<"pending", "in_progress">>,
     <<"assigned", "in_progress">>, <<"in_progress", "completed">>,
     <<"failed", "pending">>, <<"blocked", "pending">>}
    \cup ({"pending", "assigned", "in_progress", "reviewing", "blocked"} \X {"failed"})

\* C25: every change of a task's stored status is an edge of the task state
\* machine (so Completed is entered from InProgress only), and a task that is
\* InProgress or Completed has its started_at recorded.
C25_OnlyTaskEdges ==
    /\ [](\A t \in 1..Len(tasks) :
             tasks[t].status \in {"in_progress", "completed"} => tasks[t].started)
    /\ [][\A t \in 1..Len(tasks) :
             tasks'[t].status # tasks[t].status
                 => <<tasks[t].status, tasks'[t].status>> \in TaskEdges]_vars

\* C26: create_session returns the session it stored, whose status is
\* Planning; and the start_session that takes a session out of Planning
\* returns true and leaves it Active.
C26_CreateThenStart ==
    /\ [](last.op = "create_session"
             => (last.ret = "session" /\ sessions[Len(sessions)].status = "planning"))
    /\ [][\A s \in 1..Len(sessions) :
             (/\ last'.op = "start_session"
              /\ sessions[s].status = "planning"
              /\ sessions'[s] # sessions[s])
                 => (sessions'[s].status = "active" /\ last'.ret = "true")]_vars

\* The chain driver with clients that keep calling: a call that can be made is
\* eventually made, and every handler runs to its end (no crash).
SpecChainLive == SpecChain /\ WF_vars(NextChain)

\* every dependency task t lists is Completed
DependenciesDone(t) ==
    \A i \in 1..Len(tasks[t].deps) : tasks[tasks[t].deps[i]].status = "completed"

\* C27: unblocking is live.  A task that lists dependencies, all of them
\* completed through complete_task, eventually has an empty dependencies list
\* and status Pending (and, unassigned, then satisfies the filter of
\* get_next_task_for_agent).
C27_UnblockingLive ==
    \A t \in ChainIds :
        (TaskExists(t) /\ tasks[t].deps # <<>> /\ DependenciesDone(t))
            ~> (TaskExists(t) /\ tasks[t].deps = <<>> /\ tasks[t].status = "pending")

\* ------------------------------------- _check_and_unblock_dependencies alone
\* The resolver is a function of the tasks table and the queue.  It is applied
\* to tables of ResolverRows rows: a Completed task and rows of any status the
\* resolver distinguishes, with any dependency list of at most ResolverDeps
\* identifiers (repetitions included), assigned or not.
ResolverRows == 2
ResolverDeps == 2

ResolverInputRows ==
    {[NewTask(1, d, a) EXCEPT !.status = st] :
        d \in SeqsUpTo(1..ResolverRows, ResolverDeps),
        a \in {NoAgent, 1},
        st \in {"blocked", "pending", "completed"}}

InitResolver ==
    /\ tasks \in {ts \in [1..ResolverRows -> ResolverInputRows] :
                     ts[1] = [NewTask(1, <<>>, 1) EXCEPT !.status = "completed"]}
    /\ agents = [a \in AgentIds |-> NewAgent]
    /\ sessions = <<NewSession>>
    /\ task_queue = <<>>
    /\ cache = [t \in 1..ResolverRows |-> NoEntry]
    /\ session_cache = [k \in SessionCacheKeys |-> "none"]
    /\ last = [op |-> "none", ret |-> "none", val |-> NoProgress]
    /\ scen = NoScen
    /\ pc = [c \in Callers |-> "idle"]
    /\ call = [c \in Callers |-> NoCall]
    /\ lock_token = NoToken
    /\ lock_ttl = 0
    /\ next_token = 1
    /\ inst = [i \in Insts |-> NewLock]

\* one run of _check_and_unblock_dependencies(c); run counts the consecutive
\* runs for the same identifier, up to the second
CheckAndUnblockDependencies(c) ==
    /\ tasks' = ResolverTasks(tasks, c)
    /\ task_queue' = ResolverQueue(tasks, task_queue, c, 1)
    /\ last' = [op |-> "_check_and_unblock_dependencies", ret |-> "none",
                val |-> [id |-> c,
                         run |-> IF last.op = "_check_and_unblock_dependencies"
                                    /\ last.val.id = c
                                 THEN 2 ELSE 1]]
    /\ UNCHANGED <<agents, sessions, cache, session_cache, scen>>

NextResolver ==
    \/ \E c \in 1..ResolverRows :
          /\ tasks[c].status = "completed"
          /\ CheckAndUnblockDependencies(c)
          /\ UNCHANGED <<raceVars, lockVars>>

SpecResolver == InitResolver /\ [][NextResolver]_vars

\* C28: a run of the resolver that follows a run for the same completed
\* identifier, with no operation in between, changes no task status, no
\* dependency list and not the ready queue.
C28_ResolverIdempotent ==
    [][(/\ last.op = "_check_and_unblock_dependencies"
        /\ last'.op = "_check_and_unblock_dependencies"
        /\ last'.val.id = last.val.id)
           => (tasks' = tasks /\ task_queue' = task_queue)]_vars

\* the resolver has run twice for task 1, and its first run unblocked a row
\* and queued it
C28_Witness ==
    /\ last.op = "_check_and_unblock_dependencies"
    /\ last.val.id = 1 /\ last.val.run = 2
    /\ task_queue = <<2>>
    /\ tasks[2].status = "pending" /\ tasks[2].deps = <<1>>

\* ------------------------------------------------ a process that stops midway
\* The store as the resolver expects it: task 1 InProgress on agent 1, task 2
\* Blocked and listing task 1.  (Blocked rows are input: see ResolverInputRows.)
CrashRows == 2

InitCrash ==
    /\ tasks = <<[NewTask(1, <<>>, 1) EXCEPT !.status = "in_progress", !.started = TRUE],
                 [NewTask(1, <<1>>, NoAgent) EXCEPT !.status = "blocked"]>>
    /\ agents = [a \in AgentIds |-> NewAgent]
    /\ sessions = <<NewSession>>
    /\ task_queue = <<>>
    /\ cache = [t \in 1..CrashRows |-> NoEntry]
    /\ session_cache = [k \in SessionCacheKeys |-> "none"]
    /\ last = [op |-> "none", ret |-> "none", val |-> NoProgress]
    /\ scen = NoScen
    /\ pc = [c \in Callers |-> "idle"]
    /\ call = [c \in Callers |-> NoCall]
    /\ lock_token = NoToken
    /\ lock_ttl = 0
    /\ next_token = 1
    /\ inst = [i \in Insts |-> NewLock]

\* The process stops while a call is under way and is started again:
\* TaskCoordinator.__init__ sets _task_queue = [] and reads nothing from the
\* store; the calls that were under way are gone.  The store and Redis persist.
CrashRestart ==
    /\ \E c \in Callers : pc[c] \notin {"idle", "done"}
    /\ pc' = [c \in Callers |-> "idle"]
    /\ call' = [c \in Callers |-> NoCall]
    /\ task_queue' = <<>>
    /\ last' = Returned("restart", "none")
    /\ scen' = NoScen
    /\ UNCHANGED <<tasks, agents, sessions, cache, session_cache>>
    /\ UNCHANGED lockVars

NextCrash ==
    \/ \E t \in 1..CrashRows, a \in AgentIds :
          AssignTask(t, a) /\ UNCHANGED <<raceVars, lockVars>>
    \/ \E t \in 1..CrashRows : StartTask(t) /\ UNCHANGED <<raceVars, lockVars>>
    \/ \E c \in Callers, t \in 1..CrashRows : CompleteBegin(c, t)
    \/ \E c \in Callers : CompleteUpdate(c)
    \/ \E c \in Callers : CompleteAgentSelect(c)
    \/ \E c \in Callers : CompleteAgentCommit(c)
    \/ \E c \in Callers : CompleteCache(c)
    \/ \E c \in Callers : CompleteResolve(c)
    \/ \E c \in Callers : CompletePublish(c)
    \/ CrashRestart

\* after a restart the clients keep calling and the process takes its steps
SpecCrash == InitCrash /\ [][NextCrash]_vars /\ WF_vars(NextCrash)

C30_NoBlindWrite ==
    [][\A c \in Callers :
          /\ (pc[c] = "c_update" /\ pc'[c] \in {"c_agent", "c_cache"})
                => tasks[call[c].t].status = "in_progress"
          /\ (pc[c] = "r_update" /\ pc'[c] = "r_cache")
                => tasks[call[c].t].status = "failed"]_vars

\* One session and its tasks through every transition of both services, with
\* clients reading the session's progress in between.
NextCoherence ==
    \/ sessions = <<>> /\ CreateSession /\ UNCHANGED <<raceVars, lockVars>>
    \/ \E s \in SessionIds : GetSessionProgress(s) /\ UNCHANGED <<raceVars, lockVars>>
    \/ \E s \in SessionIds : StartSession(s) /\ UNCHANGED <<raceVars, lockVars>>
    \/ \E s \in SessionIds : PauseSession(s) /\ UNCHANGED <<raceVars, lockVars>>
    \/ \E s \in SessionIds : CompleteSession(s) /\ UNCHANGED <<raceVars, lockVars>>
    \/ \E s \in SessionIds : FailSession(s) /\ UNCHANGED <<raceVars, lockVars>>
    \/ \E s \in SessionIds : ArchiveSession(s) /\ UNCHANGED <<raceVars, lockVars>>
    \/ \E a \in AgentIds \cup {NoAgent} :
          Len(tasks) < LifeTasks /\ CreateTask(1, <<>>, a) /\ UNCHANGED <<raceVars, lockVars>>
    \/ \E t \in 1..LifeTasks, a \in AgentIds :
          AssignTask(t, a) /\ UNCHANGED <<raceVars, lockVars>>
    \/ \E t \in 1..LifeTasks : StartTask(t) /\ UNCHANGED <<raceVars, lockVars>>
    \/ \E t \in 1..LifeTasks : CompleteTask(t) /\ UNCHANGED <<raceVars, lockVars>>
    \/ \E t \in 1..LifeTasks : FailTask(t) /\ UNCHANGED <<raceVars, lockVars>>
    \/ \E t \in 1..LifeTasks : RetryTask(t) /\ UNCHANGED <<raceVars, lockVars>>

SpecCoherence == Init /\ [][NextCoherence]_vars

\* the cache entries of the tasks agree with the store
TaskCacheCoherent ==
    \A t \in 1..Len(tasks) :
        cache[t].present
            => (cache[t].status = tasks[t].status /\ cache[t].agent = tasks[t].agent)

\* C31: between operations, every cache entry present for a task or session
\* identifier holds the status (and assigned agent) the store holds.
C31_CacheCoherent ==
    /\ TaskCacheCoherent
    /\ \A s \in 1..Len(sessions) :
          /\ session_cache[s] # "none" => session_cache[s] = sessions[s].status
          /\ session_cache[ProgressKey(s)] # "none"
                => session_cache[ProgressKey(s)] = sessions[s].status

\* ------------------------------------------------------------------ events
\* the key of CHANNELS each transition passes to publish; archive_session has
\* no publish call
PublishChannel ==
    [start_session |-> "session_updates", pause_session |-> "session_updates",
     complete_session |-> "session_updates", fail_session |-> "session_updates",
     archive_session |-> "none",
     assign_task |-> "task_updates", start_task |-> "task_updates",
     complete_task |-> "task_updates", fail_task |-> "task_updates",
     retry_task |-> "task_updates"]

\* The number of events a transition call that returned ret has published.  In
\* every handler publish is the last statement before `return True`, on the
\* rowcount > 0 path only, and CHANNELS[...] is evaluated before the call: a
\* handler that returned False, or whose key is missing, has published nothing.
EventsPublished(op, ret) ==
    IF ret = "true" /\ PublishChannel[op] \in CHANNELS THEN 1 ELSE 0

\* C32: a transition that changes a stored status publishes exactly one event,
\* and a call that returns false publishes none.
C32_OneEventPerTransition ==
    [][last'.op \in TransitionOps =>
          /\ StatusChanged => EventsPublished(last'.op, last'.ret) = 1
          /\ last'.ret = "false" => EventsPublished(last'.op, last'.ret) = 0]_vars

\* C33: the task retry_task appends to the ready queue is unassigned and every
\* dependency it lists is Completed.
C33_RetryQueuesReadyOnly ==
    [][\A t \in 1..Len(tasks) :
          (last'.op = "retry_task" /\ task_queue' = Append(task_queue, t))
              => (tasks'[t].agent = NoAgent /\ DependenciesDone(t))]_vars

\* Holders that crash: an instance whose token is stored under the key calls
\* neither release nor extend.  The other instances call anything, and the
\* clock keeps ticking.
NextWedge ==
    \/ \E i \in Insts : Acquire(i)
    \/ \E i \in Insts : inst[i].identifier # lock_token /\ Release(i)
    \/ \E i \in Insts : inst[i].identifier # lock_token /\ ExtendGet(i)
    \/ Tick

SpecWedge == Init /\ [][NextWedge]_vars /\ WF_vars(Tick)

C35_AgentStatusTracksWork ==
    \A a \in AgentIds :
        agents[a].status = "working"
            <=> \E t \in 1..Len(tasks) :
                   tasks[t].agent = a /\ tasks[t].status \in {"assigned", "in_progress"}

\* ---------------------------------------------------------------- claim C36
\* the tasks of agent a whose stored status is st
TasksOfIn(a, st) == {t \in 1..Len(tasks) : tasks[t].agent = a /\ tasks[t].status = st}

\* C36: in SpecMetrics no task leaves Completed or Failed, so the number of
\* times a task of an agent became Completed (Failed) is the number of its
\* tasks that are Completed (Failed).  Whenever no call is in progress, each
\* agent's tasks_completed and tasks_failed equal those numbers.
C36_CountersMatchHistory ==
    (\A c \in Callers : pc[c] \in {"idle", "done"})
        => \A a \in AgentIds :
               /\ agents[a].tasks_completed = Cardinality(TasksOfIn(a, "completed"))
               /\ agents[a].tasks_failed = Cardinality(TasksOfIn(a, "failed"))

\* ---------------------------------------------------------------- claim C37
\* C37: _task_queue holds no identifier twice, and every identifier in it is
\* that of a task whose stored status is Pending and that has no agent.
C37_QueueReadyUnique ==
    /\ \A i, j \in 1..Len(task_queue) : task_queue[i] = task_queue[j] => i = j
    /\ \A i \in 1..Len(task_queue) :
           /\ TaskExists(task_queue[i])
           /\ tasks[task_queue[i]].status = "pending"
           /\ tasks[task_queue[i]].agent = NoAgent

\* ---------------------------------------------------------------- claim C38
\* In SpecCallers a task leaves Pending only through assign_task, start_task or
\* fail_task, each of which commits and publishes within one step.  A caller of
\* retry_task that publishes 'retried' while the task is no longer Pending
\* publishes after the event of a transition committed after its own.
\* C38: when a caller of retry_task publishes its event, no later transition of
\* the task has been committed and published: the task is still Pending.
C38_EventOrderFollowsCommits ==
    [][\A c \in Callers :
          (pc[c] = "r_publish" /\ pc'[c] = "done")
              => tasks[call[c].t].status = "pending"]_vars

\* ---------------------------------------------------------------- claim C39
\* C39: acquire on an instance whose identifier is stored under the key returns
\* failure, leaves the key as it is, and leaves the instance with that
\* identifier, so that its release still finds its own value under the key.
C39_FailedAcquireKeepsOwnership ==
    [][\A i \in Insts :
          (Holds(i) /\ LockCall(i, "acquire"))
              => /\ inst'[i].ret = FALSE
                 /\ lock_token' = lock_token
                 /\ inst'[i].identifier = lock_token']_vars
====
